---- MODULE Spec2Model ----
(***************************************************************************)
(* State-machine model of src/src/components/FaceDetectionApp.tsx:         *)
(* the CDN script loader, the two engine initialisations, the detection    *)
(* orchestrator (runDetection) and the face cropping arithmetic.           *)
(***************************************************************************)
EXTENDS Integers, Sequences, FiniteSets, TLC

\* ------------------------------------------------------------------------
\* Bounds of the model
\* ------------------------------------------------------------------------

\* loadScript calls issued by the loader harness (SpecLoader)
MaxCalls == 4
\* largest natural width / height of an image in the cropping harness (SpecCrop)
MaxDim == 5
\* largest width / height of a face rect in the cropping harness (SpecCrop)
MaxSide == 5
\* rect origins range over -CoordSlack .. MaxDim + CoordSlack (SpecCrop)
CoordSlack == 1
\* faces one engine call reports at most (Spec)
MaxFaces == 1
\* live engine-native objects counted exactly; larger counts are held at it
MaxNative == 4
\* faces one adapter call is given at most in the adapter harness (SpecAdapters)
MaxAdapterFaces == 2

\* ------------------------------------------------------------------------
\* Values
\* ------------------------------------------------------------------------

Max(a, b) == IF a >= b THEN a ELSE b
Min(a, b) == IF a <= b THEN a ELSE b

OPENCV_CDN == "opencv.js"
FACE_API_CDN == "face-api.js"
ScriptUrls == {OPENCV_CDN, FACE_API_CDN}

\* Map.get(src) of an absent key (undefined); promise ids start at 1
NoPromise == [id |-> 0]
PromiseRef(n) == [id |-> n]

VARIABLES
    \* --- CDN script loader (module level) ---
    scriptLoadPromises,  \* Map<string, Promise<void>>: url -> promise or NoPromise
    scripts,             \* <script> elements appended to document.head, in order
    promises,            \* settlement state of the promise created with scripts[i]
    calls,               \* loadScript calls made by the loader harness
    \* --- cropping harness ---
    cropImg,             \* natural size of the image handed to cropFaces
    cropFace,            \* the face rect handed to cropFaces
    cropOut,             \* the crop regions cropFaces computed (empty before the call)
    \* --- engine globals ---
    windowCv,            \* window.cv: what the OpenCV script defined / the module
    windowFaceApi,       \* window.faceapi is defined
    fsFiles,             \* modules whose file namespace holds HAAR_CASCADE_FILE
    onRuntimeInitialized,\* the init call whose resolver is in cv.onRuntimeInitialized
    nativeObjects,       \* live engine-native objects (Mat, RectVector, CascadeClassifier)
    \* --- component ---
    phase,               \* "mounting" while React commits the mount, then "mounted"
    inits,               \* the initOpenCV / initFaceApi calls of the mount effect
    opencvStatus,
    faceApiStatus,
    imageUrl,
    opencvResult,
    faceApiResult,
    isDetecting,
    opencvError,
    faceApiError,
    opencvParams,
    faceApiParams,
    run                  \* the runDetection call in flight

loaderVars == <<scriptLoadPromises, scripts, promises, calls>>
cropVars == <<cropImg, cropFace, cropOut>>
engineVars == <<windowCv, windowFaceApi, fsFiles, onRuntimeInitialized>>
initVars == <<phase, inits, opencvStatus, faceApiStatus>>
uiVars == <<imageUrl, opencvResult, faceApiResult, isDetecting, opencvError,
            faceApiError, opencvParams, faceApiParams, run>>
vars == <<loaderVars, cropVars, engineVars, nativeObjects, initVars, uiVars>>

\* ------------------------------------------------------------------------
\* CDN script loader: loadScript
\* ------------------------------------------------------------------------

Loader == [map |-> scriptLoadPromises, scripts |-> scripts, promises |-> promises]

\* a loadScript that never consults the memo table
loadScript_NoMemo(L, src) ==
    LET p == Len(L.promises) + 1
    IN  [loader |-> [map |-> [L.map EXCEPT ![src] = PromiseRef(p)],
                     scripts |-> Append(L.scripts, [src |-> src, state |-> "loading"]),
                     promises |-> Append(L.promises, "pending")],
         promise |-> PromiseRef(p)]

\* loadScript(src): the loader after the call and the promise returned
loadScript(L, src) ==
    LET existing == L.map[src]
    IN  IF existing # NoPromise
        THEN [loader |-> L, promise |-> existing]
        ELSE LET p == Len(L.promises) + 1
             IN  [loader |-> [map |-> [L.map EXCEPT ![src] = PromiseRef(p)],
                              scripts |-> Append(L.scripts,
                                                 [src |-> src, state |-> "loading"]),
                              promises |-> Append(L.promises, "pending")],
                  promise |-> PromiseRef(p)]

\* an onload handler that forgets the memoized entry
scriptOnload_Forget(L, i) ==
    [map |-> [L.map EXCEPT ![L.scripts[i].src] = NoPromise],
     scripts |-> [L.scripts EXCEPT ![i].state = "loaded"],
     promises |-> [L.promises EXCEPT ![i] = "resolved"]]

\* script.onload = () => resolve()
scriptOnload(L, i) ==
    [map |-> L.map,
     scripts |-> [L.scripts EXCEPT ![i].state = "loaded"],
     promises |-> [L.promises EXCEPT ![i] = "resolved"]]

\* an onerror handler that leaves the memoized entry in place
scriptOnerror_KeepEntry(L, i) ==
    [map |-> L.map,
     scripts |-> [L.scripts EXCEPT ![i].state = "failed"],
     promises |-> [L.promises EXCEPT ![i] = "rejected"]]

\* script.onerror = () => { scriptLoadPromises.delete(src); reject(...) }
scriptOnerror(L, i) ==
    [map |-> [L.map EXCEPT ![L.scripts[i].src] = NoPromise],
     scripts |-> [L.scripts EXCEPT ![i].state = "failed"],
     promises |-> [L.promises EXCEPT ![i] = "rejected"]]

\* script elements of url whose fetch is still in progress
LoadingScripts(url) ==
    {i \in 1..Len(scripts) : scripts[i].src = url /\ scripts[i].state = "loading"}

SetLoader(L) ==
    /\ scriptLoadPromises' = L.map
    /\ scripts' = L.scripts
    /\ promises' = L.promises

\* ------------------------------------------------------------------------
\* Face cropping: cropFaces
\* ------------------------------------------------------------------------

\* Math.round(n / 4) for an integer n: floor(n/4 + 1/2)
RoundQuarters(n) == (n + 2) \div 4

\* padding = Math.max(face.width, face.height) * 0.25, in quarter pixels
paddingQuarters(face) == Max(face.width, face.height)

\* a cropFaces that does not clamp the origin at 0
cropRegion_NoClamp(face, naturalWidth, naturalHeight) ==
    LET p4 == paddingQuarters(face)
        x == RoundQuarters(4 * face.x - p4)
        y == RoundQuarters(4 * face.y - p4)
    IN  [x |-> x, y |-> y,
         w |-> Min(naturalWidth - x, RoundQuarters(4 * face.width + 2 * p4)),
         h |-> Min(naturalHeight - y, RoundQuarters(4 * face.height + 2 * p4))]

\* a cropFaces that pads the width and height once instead of twice
cropRegion_PadOnce(face, naturalWidth, naturalHeight) ==
    LET p4 == paddingQuarters(face)
        x == Max(0, RoundQuarters(4 * face.x - p4))
        y == Max(0, RoundQuarters(4 * face.y - p4))
    IN  [x |-> x, y |-> y,
         w |-> Min(naturalWidth - x, RoundQuarters(4 * face.width + p4)),
         h |-> Min(naturalHeight - y, RoundQuarters(4 * face.height + p4))]

\* a cropFaces that moves the origin out by the padding but keeps the face's
\* width and height
cropRegion_PadOrigin(face, naturalWidth, naturalHeight) ==
    LET p4 == paddingQuarters(face)
        x == Max(0, RoundQuarters(4 * face.x - p4))
        y == Max(0, RoundQuarters(4 * face.y - p4))
    IN  [x |-> x, y |-> y,
         w |-> Min(naturalWidth - x, face.width),
         h |-> Min(naturalHeight - y, face.height)]

\* the body of faces.map(...) in cropFaces: the source region of drawImage
cropRegion(face, naturalWidth, naturalHeight) ==
    LET p4 == paddingQuarters(face)
        x == Max(0, RoundQuarters(4 * face.x - p4))
        y == Max(0, RoundQuarters(4 * face.y - p4))
    IN  [x |-> x, y |-> y,
         w |-> Min(naturalWidth - x, RoundQuarters(4 * face.width + 2 * p4)),
         h |-> Min(naturalHeight - y, RoundQuarters(4 * face.height + 2 * p4))]

\* a cropFaces that emits the crops last face first
cropFaces_Reversed(size, faces) ==
    [i \in 1..Len(faces) |-> cropRegion(faces[Len(faces) + 1 - i], size.w, size.h)]

\* cropFaces(img, faces) with a 2D context: one crop per face, in order
cropFaces(size, faces) ==
    [i \in 1..Len(faces) |-> cropRegion(faces[i], size.w, size.h)]

\* ------------------------------------------------------------------------
\* Engine initialisation: initOpenCV, initFaceApi and the mount effect
\* ------------------------------------------------------------------------

\* what window.cv is once the OpenCV script has run: absent, a factory
\* function, a Promise of the module, a module whose runtime is not yet
\* initialised (no cv.Mat), or an initialised module
CvGlobalKinds == {"undefined", "factory", "promise", "uninitialized", "module"}

\* the module object the script itself defines (factory calls create others)
GlobalModule == 0

Awaits(c, fn, pc) == inits[c].fn = fn /\ inits[c].pc = pc

\* setOpencvStatus / setFaceApiStatus in the .then / .catch of the mount
\* effect, for the init calls that settled in this step
statusAfter(status, settledPcs) ==
    IF "rejected" \in settledPcs THEN "error"
    ELSE IF "fulfilled" \in settledPcs THEN "ready"
    ELSE status

\* initOpenCV from the cascade probe on, for a call holding module m:
\* the probe finds the file (needsLoad = false) or the call starts the fetch
probeCascade(call, m, files) ==
    IF m \in files
    THEN [call EXCEPT !.pc = "fulfilled", !.cv = m]
    ELSE [call EXCEPT !.pc = "fetch", !.cv = m]

\* initOpenCV after `await loadScript(OPENCV_CDN)` resolved, for call c
initOpenCVAfterLoad(call, c, kind, files) ==
    CASE kind = "undefined" -> [call EXCEPT !.pc = "rejected"]
      [] kind = "factory" -> [call EXCEPT !.pc = "factory", !.cv = c]
      [] kind = "promise" -> [call EXCEPT !.pc = "cvPromise"]
      [] kind = "uninitialized" -> [call EXCEPT !.pc = "runtime"]
      [] OTHER -> probeCascade(call, GlobalModule, files)

\* initFaceApi after `await loadScript(FACE_API_CDN)` resolved
initFaceApiAfterLoad(call, defined) ==
    IF defined THEN [call EXCEPT !.pc = "loadFromUri"]
    ELSE [call EXCEPT !.pc = "rejected"]

\* the calls of the given function that sit at the given await
CallsAt(fn, pc) == {c \in DOMAIN inits : Awaits(c, fn, pc)}

\* the calls awaiting the loadScript promise p
CallsOnScript(p) ==
    {c \in DOMAIN inits : inits[c].pc = "loadScript" /\ inits[c].promise = p}

\* useEffect(() => { initOpenCV()...; initFaceApi()... }, []): both calls run
\* up to their first await, loadScript's promise
MountEffect ==
    /\ phase = "mounting"
    /\ Len(inits) < 4
    /\ LET r1 == loadScript(Loader, OPENCV_CDN)
           r2 == loadScript(r1.loader, FACE_API_CDN)
       IN  /\ SetLoader(r2.loader)
           /\ inits' = inits \o
                  <<[fn |-> "initOpenCV", pc |-> "loadScript",
                     promise |-> r1.promise, cv |-> GlobalModule, inject |-> "none"],
                    [fn |-> "initFaceApi", pc |-> "loadScript",
                     promise |-> r2.promise, cv |-> GlobalModule, inject |-> "none"]>>
    /\ UNCHANGED <<calls, cropVars, nativeObjects, engineVars, phase, opencvStatus, faceApiStatus,
                   uiVars>>

\* React has committed the mount (in development StrictMode after running
\* the effect a second time); events are dispatched from here on
MountCommitted ==
    /\ phase = "mounting"
    /\ Len(inits) >= 2
    /\ phase' = "mounted"
    /\ UNCHANGED <<loaderVars, cropVars, nativeObjects, engineVars, inits, opencvStatus,
                   faceApiStatus, uiVars>>

\* no continuation of a settled runDetection is queued: macrotasks (DOM
\* events, network completions) run only between microtask checkpoints
EventLoopIdle == run.pc # "settled"

\* cvAny.FS_createDataFile("/", HAAR_CASCADE_FILE, ...) into module m's file
\* namespace: throws when the name already exists. The call record keeps
\* what the attempt met: "exists" or "created".
fsCreateDataFile(call, files) ==
    IF call.cv \in files
    THEN [call |-> [call EXCEPT !.pc = "rejected", !.inject = "exists"],
          files |-> files]
    ELSE [call |-> [call EXCEPT !.pc = "fulfilled", !.inject = "created"],
          files |-> files \cup {call.cv}]

SettledPcs(next, cs) == {next[c].pc : c \in cs} \cap {"fulfilled", "rejected"}

\* the script element's load event: resolve(), then every init call awaiting
\* the promise continues up to its next await
ScriptOnload(i) ==
    /\ phase = "mounted"
    /\ EventLoopIdle
    /\ scripts[i].state = "loading"
    /\ SetLoader(scriptOnload(Loader, i))
    /\ LET waiting == CallsOnScript(PromiseRef(i))
       IN  IF scripts[i].src = OPENCV_CDN
           THEN \E kind \in CvGlobalKinds :
                  LET next == [c \in DOMAIN inits |->
                                  IF c \in waiting
                                  THEN initOpenCVAfterLoad(inits[c], c, kind, fsFiles)
                                  ELSE inits[c]]
                  IN  /\ windowCv' = [kind |-> kind, id |-> GlobalModule]
                      /\ inits' = next
                      /\ onRuntimeInitialized' =
                            IF kind = "uninitialized" /\ waiting # {}
                            THEN CHOOSE c \in waiting : \A d \in waiting : d <= c
                            ELSE onRuntimeInitialized
                      /\ opencvStatus' = statusAfter(opencvStatus, SettledPcs(next, waiting))
                      /\ UNCHANGED <<windowFaceApi, faceApiStatus>>
           ELSE \E defined \in BOOLEAN :
                  LET next == [c \in DOMAIN inits |->
                                  IF c \in waiting
                                  THEN initFaceApiAfterLoad(inits[c], defined)
                                  ELSE inits[c]]
                  IN  /\ windowFaceApi' = defined
                      /\ inits' = next
                      /\ faceApiStatus' = statusAfter(faceApiStatus, SettledPcs(next, waiting))
                      /\ UNCHANGED <<windowCv, onRuntimeInitialized, opencvStatus>>
    /\ UNCHANGED <<calls, cropVars, nativeObjects, fsFiles, phase, uiVars>>

\* the script element's error event: the entry is deleted, the promise
\* rejects and every init call awaiting it throws
ScriptOnerror(i) ==
    /\ phase = "mounted"
    /\ EventLoopIdle
    /\ scripts[i].state = "loading"
    /\ SetLoader(scriptOnerror(Loader, i))
    /\ LET waiting == CallsOnScript(PromiseRef(i))
           next == [c \in DOMAIN inits |->
                       IF c \in waiting THEN [inits[c] EXCEPT !.pc = "rejected"]
                       ELSE inits[c]]
       IN  /\ inits' = next
           /\ IF scripts[i].src = OPENCV_CDN
              THEN /\ opencvStatus' = statusAfter(opencvStatus, SettledPcs(next, waiting))
                   /\ UNCHANGED faceApiStatus
              ELSE /\ faceApiStatus' = statusAfter(faceApiStatus, SettledPcs(next, waiting))
                   /\ UNCHANGED opencvStatus
    /\ UNCHANGED <<calls, cropVars, nativeObjects, engineVars, phase, uiVars>>

\* `cv = await cv()` of call c settles: the factory's module is stored in
\* window.cv and the call goes on to the cascade probe
CvFactorySettles(c) ==
    /\ phase = "mounted"
    /\ EventLoopIdle
    /\ Awaits(c, "initOpenCV", "factory")
    /\ \E ok \in BOOLEAN :
         LET next == [inits EXCEPT ![c] =
                         IF ok THEN probeCascade(@, @.cv, fsFiles)
                         ELSE [@ EXCEPT !.pc = "rejected"]]
         IN  /\ inits' = next
             /\ windowCv' = IF ok THEN [kind |-> "module", id |-> inits[c].cv]
                            ELSE windowCv
             /\ opencvStatus' = statusAfter(opencvStatus, SettledPcs(next, {c}))
    /\ UNCHANGED <<loaderVars, cropVars, nativeObjects, windowFaceApi, fsFiles, onRuntimeInitialized,
                   phase, faceApiStatus, uiVars>>

\* `cv = await cv` settles for every call awaiting the script's Promise
CvPromiseSettles ==
    /\ phase = "mounted"
    /\ EventLoopIdle
    /\ CallsAt("initOpenCV", "cvPromise") # {}
    /\ \E ok \in BOOLEAN :
         LET waiting == CallsAt("initOpenCV", "cvPromise")
             next == [c \in DOMAIN inits |->
                         IF c \notin waiting THEN inits[c]
                         ELSE IF ok THEN probeCascade(inits[c], GlobalModule, fsFiles)
                         ELSE [inits[c] EXCEPT !.pc = "rejected"]]
         IN  /\ inits' = next
             /\ windowCv' = IF ok THEN [kind |-> "module", id |-> GlobalModule]
                            ELSE windowCv
             /\ opencvStatus' = statusAfter(opencvStatus, SettledPcs(next, waiting))
    /\ UNCHANGED <<loaderVars, cropVars, nativeObjects, windowFaceApi, fsFiles, onRuntimeInitialized,
                   phase, faceApiStatus, uiVars>>

\* the WASM runtime of an old-style module finishes initialising and calls
\* cv.onRuntimeInitialized: only the resolver stored last is called
RuntimeInitialized ==
    /\ phase = "mounted"
    /\ EventLoopIdle
    /\ windowCv.kind = "uninitialized"
    /\ windowCv' = [kind |-> "module", id |-> GlobalModule]
    /\ LET waiting == {c \in CallsAt("initOpenCV", "runtime") : c = onRuntimeInitialized}
           next == [c \in DOMAIN inits |->
                       IF c \in waiting THEN probeCascade(inits[c], GlobalModule, fsFiles)
                       ELSE inits[c]]
       IN  /\ inits' = next
           /\ opencvStatus' = statusAfter(opencvStatus, SettledPcs(next, waiting))
    /\ UNCHANGED <<loaderVars, cropVars, nativeObjects, windowFaceApi, fsFiles, onRuntimeInitialized,
                   phase, faceApiStatus, uiVars>>

\* `await fetch(HAAR_CASCADE_URL)` of call c settles: a response that is ok,
\* a response that is not ok, or a network error
FetchSettles(c) ==
    /\ phase = "mounted"
    /\ EventLoopIdle
    /\ Awaits(c, "initOpenCV", "fetch")
    /\ \E response \in {"ok", "notOk", "networkError"} :
         LET next == [inits EXCEPT ![c].pc =
                         IF response = "ok" THEN "arrayBuffer" ELSE "rejected"]
         IN  /\ inits' = next
             /\ opencvStatus' = statusAfter(opencvStatus, SettledPcs(next, {c}))
    /\ UNCHANGED <<loaderVars, cropVars, nativeObjects, engineVars, phase, faceApiStatus, uiVars>>

\* `await response.arrayBuffer()` of call c settles; on success the file is
\* injected with FS_createDataFile and the call returns
ArrayBufferSettles(c) ==
    /\ phase = "mounted"
    /\ EventLoopIdle
    /\ Awaits(c, "initOpenCV", "arrayBuffer")
    /\ \E ok \in BOOLEAN :
         LET r == IF ok THEN fsCreateDataFile(inits[c], fsFiles)
                  ELSE [call |-> [inits[c] EXCEPT !.pc = "rejected"], files |-> fsFiles]
             next == [inits EXCEPT ![c] = r.call]
         IN  /\ inits' = next
             /\ fsFiles' = r.files
             /\ opencvStatus' = statusAfter(opencvStatus, SettledPcs(next, {c}))
    /\ UNCHANGED <<loaderVars, cropVars, nativeObjects, windowCv, windowFaceApi, onRuntimeInitialized,
                   phase, faceApiStatus, uiVars>>

\* `await faceapi.nets.tinyFaceDetector.loadFromUri(...)` of call c settles
LoadFromUriSettles(c) ==
    /\ phase = "mounted"
    /\ EventLoopIdle
    /\ Awaits(c, "initFaceApi", "loadFromUri")
    /\ \E ok \in BOOLEAN :
         LET next == [inits EXCEPT ![c].pc = IF ok THEN "fulfilled" ELSE "rejected"]
         IN  /\ inits' = next
             /\ faceApiStatus' = statusAfter(faceApiStatus, SettledPcs(next, {c}))
    /\ UNCHANGED <<loaderVars, cropVars, nativeObjects, engineVars, phase, opencvStatus, uiVars>>

\* ------------------------------------------------------------------------
\* Detection: detectWithOpenCV, detectWithFaceApi, runDetection
\* ------------------------------------------------------------------------

Null == "null"
NullResult == [null |-> TRUE]

\* object URLs of the image files the user can select, and their natural sizes
Images == {"blob:a", "blob:b"}
ImageSize(url) == IF url = "blob:a" THEN [w |-> 8, h |-> 8] ELSE [w |-> 6, h |-> 4]

\* the files offered to handleFile: two images and one file that is no image
Files == {[type |-> "image/png", url |-> "blob:a"],
          [type |-> "image/jpeg", url |-> "blob:b"],
          [type |-> "text/plain", url |-> "blob:c"]}

\* a type check that lets every file through
IsImageType_Any(type) == type = type

\* file.type.startsWith("image/")
IsImageType(type) == type \in {"image/png", "image/jpeg"}

DefaultOpenCVParams == [scaleFactor |-> 110, minNeighbors |-> 9, minSize |-> 80]
DefaultFaceApiParams == [inputSize |-> 704, scoreThreshold |-> 30]
\* slider positions the user moves to (scaleFactor, scoreThreshold in 1/100)
ScaleFactorValues == {110, 120}
ScoreThresholdValues == {30, 50}

\* sequences over S of length at most n
SeqsUpTo(S, n) == UNION {[1..k -> S] : k \in 0..n}

\* rects the cascade reports for an image (integer fields)
CascadeRects(url) ==
    IF url = "blob:a" THEN {[x |-> 2, y |-> 2, width |-> 4, height |-> 4]}
    ELSE {[x |-> 0, y |-> 1, width |-> 3, height |-> 2]}

\* boxes the neural detector reports for an image, fields in half pixels;
\* the box of a face at the image's edge reaches beyond it (the detector
\* does not clip its boxes to the image)
NeuralBoxes(url) ==
    IF url = "blob:a" THEN {[x |-> 5, y |-> 4, width |-> 7, height |-> 9]}
    ELSE {[x |-> -3, y |-> 2, width |-> 6, height |-> 3]}

\* the arguments detectMultiScale receives: params' fields at the call
DetectMultiScaleArgs(params) ==
    [scaleFactor |-> params.scaleFactor,
     minNeighbors |-> params.minNeighbors,
     minSize |-> params.minSize]

\* new faceapi.TinyFaceDetectorOptions({inputSize, scoreThreshold}): params'
\* fields at the call
TinyFaceDetectorOptions(params) ==
    [inputSize |-> params.inputSize, scoreThreshold |-> params.scoreThreshold]

\* the rects the cascade finds with the given arguments: the coarser scale
\* step misses the small face of the second image
CascadeFinds(url, args) ==
    IF url # "blob:a" /\ args.scaleFactor > 110 THEN {} ELSE CascadeRects(url)

\* the detector's score of an image's face (in 1/100), and the boxes it
\* reports under the given options: those scoring above the threshold
NeuralScore(url) == IF url = "blob:a" THEN 60 ELSE 40
NeuralFinds(url, options) ==
    IF NeuralScore(url) > options.scoreThreshold THEN NeuralBoxes(url) ELSE {}

\* what a throwing engine call throws: an Error with a message, or a value
\* without one (OpenCV.js throws the exception pointer, a number)
Thrown == {[message |-> "engine error"], [message |-> ""]}

Throws(reason) == [kind |-> "throws", reason |-> reason]
Returns(faces) == [kind |-> "returns", faces |-> faces]
\* an exception thrown by the given statement of detectWithOpenCV
ThrowsAt(reason, step) == [kind |-> "throws", reason |-> reason, at |-> step]

\* an adapter that reads the end time after cropping
OpenCVProgram_TimedCrop ==
    <<"startTime", "imread", "newMat", "cvtColor", "equalizeHist", "newRectVector",
      "newCascadeClassifier", "load", "detectMultiScale", "faceRects", "cropFaces",
      "endTime", "mat.delete", "gray.delete", "faces.delete", "classifier.delete">>

\* a detectWithOpenCV that cleans up right after the engine call, before it
\* reads the detection vector
OpenCVProgram_EarlyCleanup ==
    <<"startTime", "imread", "newMat", "cvtColor", "equalizeHist", "newRectVector",
      "newCascadeClassifier", "load", "detectMultiScale", "endTime", "mat.delete",
      "gray.delete", "faces.delete", "classifier.delete", "faceRects", "cropFaces">>

\* the statements of detectWithOpenCV in program order
OpenCVProgram ==
    <<"startTime", "imread", "newMat", "cvtColor", "equalizeHist", "newRectVector",
      "newCascadeClassifier", "load", "detectMultiScale", "endTime", "faceRects",
      "cropFaces", "mat.delete", "gray.delete", "faces.delete", "classifier.delete">>

\* the statements that create an engine-native object, and those that free one
AllocSteps == {"imread", "newMat", "newRectVector", "newCascadeClassifier"}
DeleteSteps == {"mat.delete", "gray.delete", "faces.delete", "classifier.delete"}

\* the engine-native objects (by the name of the local holding them) a
\* statement passes to the engine or calls a method on, and the one it frees
NativeUsed(step) ==
    CASE step = "cvtColor" -> {"mat", "gray"}
      [] step = "equalizeHist" -> {"gray"}
      [] step = "load" -> {"classifier"}
      [] step = "detectMultiScale" -> {"classifier", "gray", "faces"}
      [] step = "faceRects" -> {"faces"}
      [] step = "mat.delete" -> {"mat"}
      [] step = "gray.delete" -> {"gray"}
      [] step = "faces.delete" -> {"faces"}
      [] step = "classifier.delete" -> {"classifier"}
      [] OTHER -> {}
NativeReleased(step) == IF step \in DeleteSteps THEN NativeUsed(step) ELSE {}

StepIndex(step) == CHOOSE i \in 1..Len(OpenCVProgram) : OpenCVProgram[i] = step

\* the engine calls of detectWithOpenCV taken to throw: cv.imread throws an
\* Error with a message before it has created the Mat; detectMultiScale
\* throws the native exception's pointer, a number without a message
OpenCVThrows ==
    {ThrowsAt([message |-> "engine error"], "imread"),
     ThrowsAt([message |-> ""], "detectMultiScale")}

\* the module window.cv refers to holds the cascade file
CascadeLoadable == windowCv.kind = "module" /\ windowCv.id \in fsFiles

\* what the engine part of detectWithOpenCV (imread .. detectMultiScale) can
\* do on the image: throw, or fill the RectVector; an empty classifier
\* (classifier.load found no file) makes detectMultiScale throw
OpenCVOutcomes(url, args) ==
    IF CascadeLoadable
    THEN OpenCVThrows
            \cup {Returns(f) : f \in SeqsUpTo(CascadeFinds(url, args), MaxFaces)}
    ELSE {ThrowsAt([message |-> ""], "detectMultiScale")}

\* what `await faceapi.detectAllFaces(...)` can do
FaceApiOutcomes(url, options) ==
    {Throws(t) : t \in Thrown}
        \cup {Returns(f) : f \in SeqsUpTo(NeuralFinds(url, options), MaxFaces)}

\* Math.round(n / 2) for an integer n of half pixels
RoundHalves(n) == (n + 1) \div 2

Fulfilled(value) == [status |-> "fulfilled", value |-> value]
Rejected(reason) == [status |-> "rejected", reason |-> reason]
Pending == [status |-> "pending"]

\* an adapter that starts over once after an engine call threw
opencvSteps_Retry(outcome) ==
    IF outcome.kind = "throws"
    THEN SubSeq(OpenCVProgram, 1, StepIndex(outcome.at) - 1)
            \o SubSeq(OpenCVProgram, 1, StepIndex(outcome.at) - 1)
    ELSE OpenCVProgram

\* the statements of detectWithOpenCV that ran to completion: all of them, or
\* those before the one that threw
opencvSteps(outcome) ==
    IF outcome.kind = "throws"
    THEN SubSeq(OpenCVProgram, 1, StepIndex(outcome.at) - 1)
    ELSE OpenCVProgram

CountIn(steps, S) == Cardinality({i \in 1..Len(steps) : steps[i] \in S})

\* the live native objects after a call that ran the given statements
nativeAfter(n, steps) ==
    Min(MaxNative, n + CountIn(steps, AllocSteps) - CountIn(steps, DeleteSteps))

\* the statements of detectWithFaceApi up to its await, and after it
FaceApiCallSteps == <<"startTime", "detectAllFaces">>
faceApiResumeSteps(outcome) ==
    IF outcome.kind = "throws" THEN <<>> ELSE <<"endTime", "faceRects", "cropFaces">>

\* log entries of one adapter call
Logged(fn, steps) == [i \in 1..Len(steps) |-> [fn |-> fn, step |-> steps[i]]]

\* detectWithOpenCV(img, params): the rects are copied, then cropped.
\* processingTime (endTime - startTime) is left out of the result record;
\* params reach only the engine call, whose output is drawn from OpenCVOutcomes.
detectWithOpenCV(size, outcome) ==
    IF outcome.kind = "throws" THEN Rejected(outcome.reason)
    ELSE LET faceRects == [i \in 1..Len(outcome.faces) |->
                             [x |-> outcome.faces[i].x,
                              y |-> outcome.faces[i].y,
                              width |-> outcome.faces[i].width,
                              height |-> outcome.faces[i].height]]
         IN  Fulfilled([faces |-> faceRects, croppedFaces |-> cropFaces(size, faceRects)])

\* detectWithFaceApi(img, params) after the await: boxes rounded, then cropped
detectWithFaceApi(size, outcome) ==
    IF outcome.kind = "throws" THEN Rejected(outcome.reason)
    ELSE LET faceRects == [i \in 1..Len(outcome.faces) |->
                             [x |-> RoundHalves(outcome.faces[i].x),
                              y |-> RoundHalves(outcome.faces[i].y),
                              width |-> RoundHalves(outcome.faces[i].width),
                              height |-> RoundHalves(outcome.faces[i].height)]]
         IN  Fulfilled([faces |-> faceRects, croppedFaces |-> cropFaces(size, faceRects)])

\* the first branch of runDetection: the status check, then the detect call
opencvBranch(status, size, outcome) ==
    IF status # "ready" THEN Rejected([message |-> "OpenCV not loaded"])
    ELSE detectWithOpenCV(size, outcome)

\* the second branch up to its await: the status check, then the pending call
faceApiBranch(status) ==
    IF status # "ready" THEN Rejected([message |-> "face-api.js not loaded"])
    ELSE Pending

\* the adapter statements the two branches run before runDetection's await
opencvBranchSteps(status, outcome) ==
    IF status # "ready" THEN <<>> ELSE opencvSteps(outcome)
faceApiBranchSteps(status) ==
    IF status # "ready" THEN <<>> ELSE FaceApiCallSteps

\* a joint await that rejects as a whole when one branch rejects (Promise.all)
allSettled_FailFast(a, b) ==
    IF a.status = "rejected" THEN <<a, a>>
    ELSE IF b.status = "rejected" THEN <<b, b>>
    ELSE <<a, b>>

\* Promise.allSettled([...]): each branch's own settlement
allSettled(a, b) == <<a, b>>

\* an error text taken from the exception as it is, with no fallback
errorMessage_Raw(reason) == reason.message

\* reason?.message || "Detection failed"
errorMessage(reason) ==
    IF reason.message # "" THEN reason.message ELSE "Detection failed"

\* a result handler that stores no error message on rejection
storeSettled_Silent(res, result, error) ==
    IF res.status = "fulfilled"
    THEN [result |-> res.value, error |-> error]
    ELSE [result |-> result, error |-> error]

\* a result handler that also stores an (empty) result on rejection
storeSettled_Both(res, result, error) ==
    IF res.status = "fulfilled"
    THEN [result |-> res.value, error |-> error]
    ELSE [result |-> [faces |-> <<>>, croppedFaces |-> <<>>],
          error |-> errorMessage(res.reason)]

\* if (res.status === "fulfilled") setResult(res.value) else setError(...)
storeSettled(res, result, error) ==
    IF res.status = "fulfilled"
    THEN [result |-> res.value, error |-> error]
    ELSE [result |-> result, error |-> errorMessage(res.reason)]

IdleRun == [pc |-> "idle"]

\* a panel that shows no note for an empty result
panel_NoNote(result, error) ==
    IF error # Null THEN {"error"}
    ELSE IF result # NullResult
    THEN {"stats", "canvas"}
            \cup (IF Len(result.croppedFaces) > 0 THEN {"croppedFaces"} ELSE {})
    ELSE {}

\* what one engine's result panel renders:
\* {error ? <p>{error}</p> : result ? <>...</> : null}
panel(result, error) ==
    IF error # Null THEN {"error"}
    ELSE IF result # NullResult
    THEN {"stats", "canvas"}
            \cup (IF Len(result.croppedFaces) > 0 THEN {"croppedFaces"} ELSE {})
            \cup (IF Len(result.faces) = 0 THEN {"noFaces"} ELSE {})
    ELSE {}

\* a Detect button that stays enabled while a run is in flight
detectDisabled_NotWhileDetecting(detecting, opencvSt, faceApiSt) ==
    opencvSt # "ready" /\ faceApiSt # "ready"

\* a Detect button that needs both engines ready
detectDisabled_UnlessBoth(detecting, opencvSt, faceApiSt) ==
    detecting \/ opencvSt # "ready" \/ faceApiSt # "ready"

\* disabled={isDetecting || (opencvStatus !== "ready" && faceApiStatus !== "ready")}
detectDisabled(detecting, opencvSt, faceApiSt) ==
    detecting \/ (opencvSt # "ready" /\ faceApiSt # "ready")

\* const handleFile = (file) => { ... }
HandleFile(file) ==
    /\ phase = "mounted"
    /\ EventLoopIdle
    /\ IF IsImageType(file.type)
       THEN /\ imageUrl' = file.url
            /\ opencvResult' = NullResult
            /\ faceApiResult' = NullResult
            /\ opencvError' = Null
            /\ faceApiError' = Null
       ELSE UNCHANGED <<imageUrl, opencvResult, faceApiResult, opencvError, faceApiError>>
    /\ UNCHANGED <<loaderVars, cropVars, nativeObjects, engineVars, initVars, isDetecting,
                   opencvParams, faceApiParams, run>>

\* the scaleFactor slider's onChange
SetOpencvParams(v) ==
    /\ phase = "mounted"
    /\ EventLoopIdle
    /\ opencvParams' = [opencvParams EXCEPT !.scaleFactor = v]
    /\ UNCHANGED <<loaderVars, cropVars, nativeObjects, engineVars, initVars, imageUrl, opencvResult,
                   faceApiResult, isDetecting, opencvError, faceApiError,
                   faceApiParams, run>>

\* the scoreThreshold slider's onChange
SetFaceApiParams(v) ==
    /\ phase = "mounted"
    /\ EventLoopIdle
    /\ faceApiParams' = [faceApiParams EXCEPT !.scoreThreshold = v]
    /\ UNCHANGED <<loaderVars, cropVars, nativeObjects, engineVars, initVars, imageUrl, opencvResult,
                   faceApiResult, isDetecting, opencvError, faceApiError,
                   opencvParams, run>>

\* a click on the Detect button: runDetection up to its await. The button is
\* rendered with the <img> (imageRef.current) when imageUrl is set, and is
\* disabled while detecting or while neither engine is ready.
RunDetection ==
    /\ phase = "mounted"
    /\ EventLoopIdle
    /\ imageUrl # Null
    /\ ~detectDisabled(isDetecting, opencvStatus, faceApiStatus)
    /\ isDetecting' = TRUE
    /\ opencvResult' = NullResult
    /\ faceApiResult' = NullResult
    /\ opencvError' = Null
    /\ faceApiError' = Null
    /\ \E outcome \in OpenCVOutcomes(imageUrl, DetectMultiScaleArgs(opencvParams)) :
         LET second == faceApiBranch(faceApiStatus)
             steps == opencvBranchSteps(opencvStatus, outcome)
         IN  /\ run' = [pc |-> IF second = Pending THEN "awaiting" ELSE "settled",
                        img |-> imageUrl,
                        opencvReady |-> opencvStatus = "ready",
                        faceApiReady |-> faceApiStatus = "ready",
                        options |-> TinyFaceDetectorOptions(faceApiParams),
                        opencvRes |-> opencvBranch(opencvStatus, ImageSize(imageUrl), outcome),
                        faceApiRes |-> second,
                        log |-> Logged("detectWithOpenCV", steps)
                                  \o Logged("detectWithFaceApi",
                                            faceApiBranchSteps(faceApiStatus))]
             /\ nativeObjects' = nativeAfter(nativeObjects, steps)
    /\ UNCHANGED <<loaderVars, cropVars, engineVars, initVars, imageUrl,
                   opencvParams, faceApiParams>>

\* a detector that reads the parameters when it settles
DetectAllFacesSettles_LateParams ==
    /\ phase = "mounted"
    /\ run.pc = "awaiting"
    /\ \E outcome \in FaceApiOutcomes(run.img, TinyFaceDetectorOptions(faceApiParams)) :
         run' = [run EXCEPT !.pc = "settled",
                            !.faceApiRes = detectWithFaceApi(ImageSize(imageUrl), outcome),
                            !.log = @ \o Logged("detectWithFaceApi",
                                                faceApiResumeSteps(outcome))]
    /\ UNCHANGED <<loaderVars, cropVars, nativeObjects, engineVars, initVars, imageUrl,
                   opencvResult, faceApiResult, isDetecting, opencvError, faceApiError,
                   opencvParams, faceApiParams>>

\* faceapi.detectAllFaces settles; detectWithFaceApi rounds the boxes and
\* crops them from the <img> element as it is now
DetectAllFacesSettles ==
    /\ phase = "mounted"
    /\ run.pc = "awaiting"
    /\ \E outcome \in FaceApiOutcomes(run.img, run.options) :
         run' = [run EXCEPT !.pc = "settled",
                            !.faceApiRes = detectWithFaceApi(ImageSize(imageUrl), outcome),
                            !.log = @ \o Logged("detectWithFaceApi",
                                                faceApiResumeSteps(outcome))]
    /\ UNCHANGED <<loaderVars, cropVars, nativeObjects, engineVars, initVars, imageUrl, opencvResult,
                   faceApiResult, isDetecting, opencvError, faceApiError,
                   opencvParams, faceApiParams>>

\* a runDetection that resumes as soon as the first branch has settled and
\* stores what has settled by then
RunDetectionResume_Race ==
    /\ phase = "mounted"
    /\ run.pc \in {"awaiting", "settled"}
    /\ LET first == storeSettled(run.opencvRes, opencvResult, opencvError)
           second == IF run.faceApiRes = Pending
                     THEN [result |-> faceApiResult, error |-> faceApiError]
                     ELSE storeSettled(run.faceApiRes, faceApiResult, faceApiError)
       IN  /\ opencvResult' = first.result
           /\ opencvError' = first.error
           /\ faceApiResult' = second.result
           /\ faceApiError' = second.error
    /\ isDetecting' = FALSE
    /\ run' = IdleRun
    /\ UNCHANGED <<loaderVars, cropVars, nativeObjects, engineVars, initVars, imageUrl,
                   opencvParams, faceApiParams>>

\* a runDetection whose joint await throws when a branch has rejected, so
\* that the statements after it, setIsDetecting(false) included, are skipped
RunDetectionResume_Unhandled ==
    /\ phase = "mounted"
    /\ run.pc = "settled"
    /\ LET settled == allSettled(run.opencvRes, run.faceApiRes)
           first == storeSettled(settled[1], opencvResult, opencvError)
           second == storeSettled(settled[2], faceApiResult, faceApiError)
           thrown == "rejected" \in {settled[1].status, settled[2].status}
       IN  /\ opencvResult' = IF thrown THEN opencvResult ELSE first.result
           /\ opencvError' = IF thrown THEN opencvError ELSE first.error
           /\ faceApiResult' = IF thrown THEN faceApiResult ELSE second.result
           /\ faceApiError' = IF thrown THEN faceApiError ELSE second.error
           /\ isDetecting' = thrown
    /\ run' = IdleRun
    /\ UNCHANGED <<loaderVars, cropVars, nativeObjects, engineVars, initVars, imageUrl,
                   opencvParams, faceApiParams>>

\* runDetection after `await Promise.allSettled([...])`
RunDetectionResume ==
    /\ phase = "mounted"
    /\ run.pc = "settled"
    /\ LET settled == allSettled(run.opencvRes, run.faceApiRes)
           first == storeSettled(settled[1], opencvResult, opencvError)
           second == storeSettled(settled[2], faceApiResult, faceApiError)
       IN  /\ opencvResult' = first.result
           /\ opencvError' = first.error
           /\ faceApiResult' = second.result
           /\ faceApiError' = second.error
    /\ isDetecting' = FALSE
    /\ run' = IdleRun
    /\ UNCHANGED <<loaderVars, cropVars, nativeObjects, engineVars, initVars, imageUrl,
                   opencvParams, faceApiParams>>

\* ------------------------------------------------------------------------
\* Cropping harness (SpecCrop): cropFaces applied to one rect of one image
\* ------------------------------------------------------------------------

SampleImage == [w |-> 100, h |-> 100]
SampleFace == [x |-> 40, y |-> 40, width |-> 20, height |-> 20]

CropImages == [w : 0..MaxDim, h : 0..MaxDim] \cup {SampleImage}
CropFaces ==
    [x : (0 - CoordSlack)..(MaxDim + CoordSlack),
     y : (0 - CoordSlack)..(MaxDim + CoordSlack),
     width : 0..MaxSide, height : 0..MaxSide] \cup {SampleFace}

NotCropped == <<>>

CropStep ==
    /\ cropOut = NotCropped
    /\ cropOut' = cropFaces(cropImg, <<cropFace>>)
    /\ UNCHANGED <<cropImg, cropFace>>
    /\ UNCHANGED <<loaderVars, engineVars, nativeObjects, initVars, uiVars>>

\* ------------------------------------------------------------------------
\* Adapter harness (SpecAdapters): each adapter's result for the faces an
\* engine call returned on one image
\* ------------------------------------------------------------------------

AdapterRects == CascadeRects("blob:a") \cup CascadeRects("blob:b")
AdapterBoxes == NeuralBoxes("blob:a") \cup NeuralBoxes("blob:b")

\* detectWithOpenCV's return value when detectMultiScale filled the vector
OpenCVAdapterStep ==
    /\ opencvResult = NullResult
    /\ \E f \in SeqsUpTo(AdapterRects, MaxAdapterFaces) :
         opencvResult' = detectWithOpenCV(cropImg, Returns(f)).value
    /\ UNCHANGED <<loaderVars, cropVars, engineVars, nativeObjects, initVars, imageUrl,
                   faceApiResult, isDetecting, opencvError, faceApiError,
                   opencvParams, faceApiParams, run>>

\* detectWithFaceApi's return value when detectAllFaces resolved
FaceApiAdapterStep ==
    /\ faceApiResult = NullResult
    /\ \E f \in SeqsUpTo(AdapterBoxes, MaxAdapterFaces) :
         faceApiResult' = detectWithFaceApi(cropImg, Returns(f)).value
    /\ UNCHANGED <<loaderVars, cropVars, engineVars, nativeObjects, initVars, imageUrl,
                   opencvResult, isDetecting, opencvError, faceApiError,
                   opencvParams, faceApiParams, run>>

\* ------------------------------------------------------------------------
\* Loader harness (SpecLoader): arbitrary callers of loadScript
\* ------------------------------------------------------------------------

CallLoadScript(src) ==
    /\ Len(calls) < MaxCalls
    /\ LET r == loadScript(Loader, src)
       IN  /\ SetLoader(r.loader)
           /\ calls' = Append(calls,
                  [src |-> src,
                   promise |-> r.promise,
                   overlap |-> LoadingScripts(src),
                   failedBefore |-> {i \in 1..Len(scripts) :
                                        scripts[i].src = src /\ scripts[i].state = "failed"},
                   loadedBefore |-> {i \in 1..Len(scripts) :
                                        scripts[i].src = src /\ scripts[i].state = "loaded"},
                   created |-> Len(r.loader.scripts) > Len(scripts)])
    /\ UNCHANGED <<cropVars, nativeObjects, engineVars, initVars, uiVars>>

\* ------------------------------------------------------------------------
\* Specifications
\* ------------------------------------------------------------------------

\* the component before its mount effect has run
Init ==
    /\ scriptLoadPromises = [u \in ScriptUrls |-> NoPromise]
    /\ scripts = <<>>
    /\ promises = <<>>
    /\ calls = <<>>
    /\ cropImg = SampleImage
    /\ cropFace = SampleFace
    /\ cropOut = NotCropped
    /\ windowCv = [kind |-> "undefined", id |-> GlobalModule]
    /\ windowFaceApi = FALSE
    /\ fsFiles = {}
    /\ onRuntimeInitialized = 0
    /\ nativeObjects = 0
    /\ phase = "mounting"
    /\ inits = <<>>
    /\ opencvStatus = "loading"
    /\ faceApiStatus = "loading"
    /\ imageUrl = Null
    /\ opencvResult = NullResult
    /\ faceApiResult = NullResult
    /\ isDetecting = FALSE
    /\ opencvError = Null
    /\ faceApiError = Null
    /\ opencvParams = DefaultOpenCVParams
    /\ faceApiParams = DefaultFaceApiParams
    /\ run = IdleRun

Next ==
    \/ MountEffect
    \/ MountCommitted
    \/ \E i \in 1..Len(scripts) : ScriptOnload(i)
    \/ \E i \in 1..Len(scripts) : ScriptOnerror(i)
    \/ \E c \in DOMAIN inits : CvFactorySettles(c)
    \/ CvPromiseSettles
    \/ RuntimeInitialized
    \/ \E c \in DOMAIN inits : FetchSettles(c)
    \/ \E c \in DOMAIN inits : ArrayBufferSettles(c)
    \/ \E c \in DOMAIN inits : LoadFromUriSettles(c)
    \/ \E file \in Files : HandleFile(file)
    \/ \E v \in ScaleFactorValues : SetOpencvParams(v)
    \/ \E v \in ScoreThresholdValues : SetFaceApiParams(v)
    \/ RunDetection
    \/ DetectAllFacesSettles
    \/ RunDetectionResume

Spec == Init /\ [][Next]_vars

\* the loader alone, with no component mounted
LoaderInit ==
    /\ scriptLoadPromises = [u \in ScriptUrls |-> NoPromise]
    /\ scripts = <<>>
    /\ promises = <<>>
    /\ calls = <<>>
    /\ cropImg = SampleImage
    /\ cropFace = SampleFace
    /\ cropOut = NotCropped
    /\ windowCv = [kind |-> "undefined", id |-> GlobalModule]
    /\ windowFaceApi = FALSE
    /\ fsFiles = {}
    /\ onRuntimeInitialized = 0
    /\ nativeObjects = 0
    /\ phase = "mounted"
    /\ inits = <<>>
    /\ opencvStatus = "loading"
    /\ faceApiStatus = "loading"
    /\ imageUrl = Null
    /\ opencvResult = NullResult
    /\ faceApiResult = NullResult
    /\ isDetecting = FALSE
    /\ opencvError = Null
    /\ faceApiError = Null
    /\ opencvParams = DefaultOpenCVParams
    /\ faceApiParams = DefaultFaceApiParams
    /\ run = IdleRun

LoaderNext ==
    \/ \E src \in ScriptUrls : CallLoadScript(src)
    \/ \E i \in 1..Len(scripts) : ScriptOnload(i)
    \/ \E i \in 1..Len(scripts) : ScriptOnerror(i)

SpecLoader == LoaderInit /\ [][LoaderNext]_vars

\* cropFaces alone, on every image size and rect within the bounds
CropInit ==
    /\ scriptLoadPromises = [u \in ScriptUrls |-> NoPromise]
    /\ scripts = <<>>
    /\ promises = <<>>
    /\ calls = <<>>
    /\ cropImg \in CropImages
    /\ cropFace \in CropFaces
    /\ cropOut = NotCropped
    /\ windowCv = [kind |-> "undefined", id |-> GlobalModule]
    /\ windowFaceApi = FALSE
    /\ fsFiles = {}
    /\ onRuntimeInitialized = 0
    /\ nativeObjects = 0
    /\ phase = "mounted"
    /\ inits = <<>>
    /\ opencvStatus = "loading"
    /\ faceApiStatus = "loading"
    /\ imageUrl = Null
    /\ opencvResult = NullResult
    /\ faceApiResult = NullResult
    /\ isDetecting = FALSE
    /\ opencvError = Null
    /\ faceApiError = Null
    /\ opencvParams = DefaultOpenCVParams
    /\ faceApiParams = DefaultFaceApiParams
    /\ run = IdleRun

CropNext == CropStep

SpecCrop == CropInit /\ [][CropNext]_vars

\* the adapters applied to an image of any harness size
AdapterInit ==
    /\ scriptLoadPromises = [u \in ScriptUrls |-> NoPromise]
    /\ scripts = <<>>
    /\ promises = <<>>
    /\ calls = <<>>
    /\ cropImg \in CropImages
    /\ cropFace = SampleFace
    /\ cropOut = NotCropped
    /\ windowCv = [kind |-> "undefined", id |-> GlobalModule]
    /\ windowFaceApi = FALSE
    /\ fsFiles = {}
    /\ onRuntimeInitialized = 0
    /\ nativeObjects = 0
    /\ phase = "mounted"
    /\ inits = <<>>
    /\ opencvStatus = "loading"
    /\ faceApiStatus = "loading"
    /\ imageUrl = Null
    /\ opencvResult = NullResult
    /\ faceApiResult = NullResult
    /\ isDetecting = FALSE
    /\ opencvError = Null
    /\ faceApiError = Null
    /\ opencvParams = DefaultOpenCVParams
    /\ faceApiParams = DefaultFaceApiParams
    /\ run = IdleRun

AdapterNext ==
    \/ OpenCVAdapterStep
    \/ FaceApiAdapterStep

SpecAdapters == AdapterInit /\ [][AdapterNext]_vars

\* ------------------------------------------------------------------------
\* Detection runs under fair scheduling (SpecDetect)
\* ------------------------------------------------------------------------

\* The page once the mount effect has run once and both engines have loaded:
\* both scripts loaded, the cascade file injected into window.cv's file
\* namespace, both statuses ready, no image selected yet. From here on only
\* the user's actions and the detection run's own steps are enabled.
DetectInit ==
    /\ scriptLoadPromises = [u \in ScriptUrls |-> [id |-> IF u = "opencv.js" THEN 1 ELSE 2]]
    /\ scripts = <<[src |-> "opencv.js", state |-> "loaded"],
                   [src |-> "face-api.js", state |-> "loaded"]>>
    /\ promises = <<"resolved", "resolved">>
    /\ calls = <<>>
    /\ cropImg = SampleImage
    /\ cropFace = SampleFace
    /\ cropOut = NotCropped
    /\ windowCv = [kind |-> "module", id |-> GlobalModule]
    /\ windowFaceApi = TRUE
    /\ fsFiles = {GlobalModule}
    /\ onRuntimeInitialized = 0
    /\ nativeObjects = 0
    /\ phase = "mounted"
    /\ inits = <<[fn |-> "initOpenCV", pc |-> "fulfilled", promise |-> [id |-> 1],
                  cv |-> GlobalModule, inject |-> "created"],
                 [fn |-> "initFaceApi", pc |-> "fulfilled", promise |-> [id |-> 2],
                  cv |-> GlobalModule, inject |-> "none"]>>
    /\ opencvStatus = "ready"
    /\ faceApiStatus = "ready"
    /\ imageUrl = Null
    /\ opencvResult = NullResult
    /\ faceApiResult = NullResult
    /\ isDetecting = FALSE
    /\ opencvError = Null
    /\ faceApiError = Null
    /\ opencvParams = DefaultOpenCVParams
    /\ faceApiParams = DefaultFaceApiParams
    /\ run = IdleRun

DetectNext ==
    \/ \E file \in Files : HandleFile(file)
    \/ \E v \in ScaleFactorValues : SetOpencvParams(v)
    \/ \E v \in ScoreThresholdValues : SetFaceApiParams(v)
    \/ RunDetection
    \/ DetectAllFacesSettles
    \/ RunDetectionResume

\* Fairness: the continuation of `await Promise.allSettled([...])` is a
\* microtask, which the event loop runs once both branches have settled;
\* faceapi.detectAllFaces is taken to return or throw eventually.
SpecDetect ==
    /\ DetectInit
    /\ [][DetectNext]_vars
    /\ WF_vars(DetectAllFacesSettles)
    /\ WF_vars(RunDetectionResume)

\* ------------------------------------------------------------------------
\* Properties
\* ------------------------------------------------------------------------

\* the step in which a runDetection call completes (lines 437-449)
RunCompletes == run.pc = "settled" /\ run'.pc = "idle"

\* C1: when a detection run completes with one engine's branch rejected and
\* the other's fulfilled, the fulfilled engine shows its result and no error,
\* and the rejected engine shows its error and no result.
C1_MixedOutcomeShown ==
    [][RunCompletes =>
        /\ (run.opencvRes.status = "rejected" /\ run.faceApiRes.status = "fulfilled")
              => /\ faceApiResult' = run.faceApiRes.value
                 /\ faceApiResult' # NullResult
                 /\ faceApiError' = Null
                 /\ opencvError' # Null
                 /\ opencvResult' = NullResult
        /\ (run.opencvRes.status = "fulfilled" /\ run.faceApiRes.status = "rejected")
              => /\ opencvResult' = run.opencvRes.value
                 /\ opencvResult' # NullResult
                 /\ opencvError' = Null
                 /\ faceApiError' # Null
                 /\ faceApiResult' = NullResult]_vars

\* a completed run in which OpenCV was not loaded and face-api found faces
C1_Witness ==
    /\ run.pc = "idle"
    /\ ~isDetecting
    /\ opencvError = "OpenCV not loaded"
    /\ opencvResult = NullResult
    /\ faceApiError = Null
    /\ faceApiResult # NullResult
    /\ Len(faceApiResult.faces) > 0

\* result and error of one engine are not both set
NotBoth(result, error) == ~(result # NullResult /\ error # Null)
\* exactly one of result and error of one engine is set
ExactlyOne(result, error) == (result # NullResult) # (error # Null)

\* C2: in every reachable state no engine has both a result and an error, and
\* in the state a completing run leaves, each engine has exactly one of them.
C2_OneOfResultOrError ==
    /\ [](NotBoth(opencvResult, opencvError) /\ NotBoth(faceApiResult, faceApiError))
    /\ [][RunCompletes =>
            /\ ExactlyOne(opencvResult', opencvError')
            /\ ExactlyOne(faceApiResult', faceApiError')]_vars

\* a completed run in which both branches were rejected, after the status of
\* an engine changed and a parameter was moved
C2_Witness ==
    /\ run.pc = "idle"
    /\ ~isDetecting
    /\ opencvError = "Detection failed"
    /\ faceApiError = "face-api.js not loaded"
    /\ opencvResult = NullResult
    /\ faceApiResult = NullResult
    /\ opencvParams # DefaultOpenCVParams

\* what one engine shows after a run, from its own branch alone
OwnOutcome(res) ==
    IF res.status = "fulfilled"
    THEN [result |-> res.value, error |-> Null]
    ELSE [result |-> NullResult, error |-> errorMessage(res.reason)]

\* the settlements the other engine's branch could have had instead
OtherBranchResults ==
    {Rejected([message |-> "not loaded"]), Rejected([message |-> ""]),
     Fulfilled([faces |-> <<>>, croppedFaces |-> <<>>])}

\* C3: what a completing run stores for one engine is decided by that
\* engine's own branch: it is the outcome of its own settlement, and it is
\* the same whatever the other engine's branch had settled to.
C3_BranchesIndependent ==
    [][RunCompletes =>
        /\ [result |-> opencvResult', error |-> opencvError'] = OwnOutcome(run.opencvRes)
        /\ [result |-> faceApiResult', error |-> faceApiError'] = OwnOutcome(run.faceApiRes)
        /\ \A other \in OtherBranchResults :
              /\ storeSettled(allSettled(other, run.faceApiRes)[2], faceApiResult, faceApiError)
                    = [result |-> faceApiResult', error |-> faceApiError']
              /\ storeSettled(allSettled(run.opencvRes, other)[1], opencvResult, opencvError)
                    = [result |-> opencvResult', error |-> opencvError']]_vars

\* a completed run in which OpenCV threw and face-api returned no faces
C3_Witness ==
    /\ run.pc = "idle"
    /\ ~isDetecting
    /\ opencvError = "engine error"
    /\ faceApiResult # NullResult
    /\ faceApiResult.faces = <<>>
    /\ faceApiError = Null

\* the crop computed for the harness's rect has been computed
Cropped == cropOut # NotCropped

\* C4: the crop region lies within the image: 0 <= x, 0 <= y,
\* x + w <= naturalWidth, y + h <= naturalHeight, so w and h do not exceed
\* the image's dimensions.
C4_CropWithinImage ==
    Cropped =>
        /\ 0 <= cropOut[1].x
        /\ 0 <= cropOut[1].y
        /\ cropOut[1].x + cropOut[1].w <= cropImg.w
        /\ cropOut[1].y + cropOut[1].h <= cropImg.h
        /\ cropOut[1].w <= cropImg.w
        /\ cropOut[1].h <= cropImg.h

\* a rect whose padded box leaves the image on the left and on the right
C4_Witness ==
    /\ Cropped
    /\ cropFace.x = 0
    /\ cropFace.width = cropImg.w
    /\ cropFace.width >= 4
    /\ cropOut[1].x = 0
    /\ cropOut[1].w = cropImg.w

\* round(0.25 * max(width, height))
RoundedPadding(face) == RoundQuarters(paddingQuarters(face))

\* the harness's rect has positive sides and lies inside the image
FaceInsideImage ==
    /\ cropFace.x >= 0 /\ cropFace.y >= 0
    /\ cropFace.width >= 1 /\ cropFace.height >= 1
    /\ cropFace.x + cropFace.width <= cropImg.w
    /\ cropFace.y + cropFace.height <= cropImg.h

\* C5: the crop extends the rect by exactly round(0.25 * max(width, height))
\* on each of the four sides, a side that would leave the image being
\* clamped to the image edge while the other sides keep that padding.
\* Stated for rects inside the image whose larger side is a multiple of 4,
\* where 0.25 * max(width, height) is a whole number of pixels.
C5_ExactPaddingEachSide ==
    (Cropped /\ FaceInsideImage /\ paddingQuarters(cropFace) % 4 = 0) =>
        LET p == RoundedPadding(cropFace)
            c == cropOut[1]
        IN  /\ c.x = Max(0, cropFace.x - p)
            /\ c.y = Max(0, cropFace.y - p)
            /\ c.x + c.w = Min(cropImg.w, cropFace.x + cropFace.width + p)
            /\ c.y + c.h = Min(cropImg.h, cropFace.y + cropFace.height + p)

\* C6: for a 100x100 image and the rect {x:40, y:40, width:20, height:20} the
\* padding is 5 and the crop region is {x:35, y:35, w:30, h:30}.
C6_SampleCrop ==
    (Cropped /\ cropImg = SampleImage /\ cropFace = SampleFace) =>
        /\ paddingQuarters(cropFace) = 4 * 5
        /\ cropOut = <<[x |-> 35, y |-> 35, w |-> 30, h |-> 30]>>

\* the sample rect of the sample image has been cropped
C6_Witness == Cropped /\ cropImg = SampleImage /\ cropFace = SampleFace

\* C7: a loadScript call made while a load of the same URL is in progress
\* creates no script element and returns that load's promise, so at most one
\* script element (one fetch) of a URL is loading at any time.
C7_OneFetchPerConcurrentLoad ==
    /\ \A k \in 1..Len(calls) :
          calls[k].overlap # {} =>
              /\ ~calls[k].created
              /\ calls[k].promise.id \in calls[k].overlap
    /\ \A u \in ScriptUrls : Cardinality(LoadingScripts(u)) <= 1

\* two calls for one URL, the second made during the first's load, which is
\* still in progress
C7_Witness ==
    \E k1, k2 \in 1..Len(calls) :
        /\ k1 < k2
        /\ calls[k1].src = calls[k2].src
        /\ calls[k1].created
        /\ calls[k1].promise.id \in calls[k2].overlap
        /\ scripts[calls[k1].promise.id].state = "loading"

\* C8: callers of loadScript whose calls overlap one load of a URL share its
\* outcome: their promises are settled alike, never one resolved and one
\* rejected.
C8_SharedOutcome ==
    \A k1, k2 \in 1..Len(calls) :
        (calls[k1].src = calls[k2].src /\ calls[k1].promise.id \in calls[k2].overlap)
            => promises[calls[k1].promise.id] = promises[calls[k2].promise.id]

\* three overlapping callers of one URL whose load has failed
C8_Witness ==
    \E k1, k2, k3 \in 1..Len(calls) :
        /\ k1 < k2 /\ k2 < k3
        /\ calls[k1].promise.id \in calls[k2].overlap
        /\ calls[k1].promise.id \in calls[k3].overlap
        /\ promises[calls[k1].promise.id] = "rejected"
        /\ promises[calls[k3].promise.id] = "rejected"

\* script i's load fails in this step
ScriptFails(i) == scripts[i].state = "loading" /\ scripts'[i].state = "failed"

\* C9: when the load of a URL fails its memoized entry is removed and its
\* promise rejects, the entries of other URLs stay as they are, and the next
\* loadScript call for the URL creates a new script element.
C9_FailureClearsEntry ==
    /\ [][\A i \in 1..Len(scripts) :
            ScriptFails(i) =>
                /\ scriptLoadPromises'[scripts[i].src] = NoPromise
                /\ promises'[i] = "rejected"
                /\ \A u \in ScriptUrls \ {scripts[i].src} :
                      scriptLoadPromises'[u] = scriptLoadPromises[u]]_vars
    /\ [](\A k \in 1..Len(calls) :
            (calls[k].failedBefore # {} /\ calls[k].overlap = {}
                /\ calls[k].loadedBefore = {})
              => /\ calls[k].created
                 /\ calls[k].promise.id \notin calls[k].failedBefore)

\* a call that started a fresh load after a failed one, while the other URL's
\* entry was kept
C9_Witness ==
    \E k \in 1..Len(calls) :
        /\ calls[k].failedBefore # {}
        /\ calls[k].created
        /\ \E u \in ScriptUrls \ {calls[k].src} :
              /\ scriptLoadPromises[u] # NoPromise
              /\ scriptLoadPromises[u].id < calls[k].promise.id
              /\ \E i \in calls[k].failedBefore : scriptLoadPromises[u].id < i

\* C10: once an engine's status is ready or error, no step changes it.
C10_StatusSettlesOnce ==
    [][/\ opencvStatus # "loading" => opencvStatus' = opencvStatus
       /\ faceApiStatus # "loading" => faceApiStatus' = faceApiStatus]_vars

\* the adapter function was called in the run in flight
Invoked(fn) == \E i \in 1..Len(run.log) : run.log[i].fn = fn

\* C11: an engine that was not ready when the run started is not invoked, and
\* the run ends with its error set to the not-loaded message and its result
\* null; an engine whose detect call threw ends with the exception's message
\* as its error, or "Detection failed" when the exception has no message.
C11_NotReadyOrThrown ==
    [][RunCompletes =>
        /\ ~run.opencvReady =>
              /\ ~Invoked("detectWithOpenCV")
              /\ opencvError' = "OpenCV not loaded"
              /\ opencvResult' = NullResult
        /\ ~run.faceApiReady =>
              /\ ~Invoked("detectWithFaceApi")
              /\ faceApiError' = "face-api.js not loaded"
              /\ faceApiResult' = NullResult
        /\ (Invoked("detectWithOpenCV") /\ run.opencvRes.status = "rejected") =>
              opencvError' = IF run.opencvRes.reason.message = ""
                             THEN "Detection failed"
                             ELSE run.opencvRes.reason.message
        /\ (Invoked("detectWithFaceApi") /\ run.faceApiRes.status = "rejected") =>
              faceApiError' = IF run.faceApiRes.reason.message = ""
                              THEN "Detection failed"
                              ELSE run.faceApiRes.reason.message]_vars

\* a completed run in which OpenCV was not ready and the face-api call threw
\* a value without a message
C11_Witness ==
    /\ run.pc = "idle"
    /\ ~isDetecting
    /\ opencvStatus # "ready"
    /\ opencvError = "OpenCV not loaded"
    /\ opencvResult = NullResult
    /\ faceApiStatus = "ready"
    /\ faceApiError = "Detection failed"

\* C12: in a detection run with both engines ready, the face-api detection
\* call (detectAllFaces) is started before the OpenCV detection has finished:
\* some statement of detectWithOpenCV runs after it.
C12_NeuralStartsBeforeClassicalEnds ==
    (run.pc # "idle" /\ run.opencvReady /\ run.faceApiReady) =>
        \E i, j \in 1..Len(run.log) :
            /\ i < j
            /\ run.log[i] = [fn |-> "detectWithFaceApi", step |-> "detectAllFaces"]
            /\ run.log[j].fn = "detectWithOpenCV"

\* the initOpenCV calls that called FS_createDataFile on module m
Injectors(m) ==
    {c \in DOMAIN inits :
        inits[c].fn = "initOpenCV" /\ inits[c].cv = m /\ inits[c].inject # "none"}

\* C13: across all initOpenCV calls the cascade file is injected into a
\* module's file namespace at most once, and FS_createDataFile is never
\* attempted on a namespace that already holds the file.
C13_InjectAtMostOnce ==
    \A c \in DOMAIN inits :
        /\ Cardinality(Injectors(inits[c].cv)) <= 1
        /\ inits[c].inject # "exists"

\* C14: after every call of detectWithOpenCV, returned or thrown, the native
\* objects it created have been released: no native object is live between
\* calls, so their number does not grow over repeated runs.
C14_NativeObjectsReleased == nativeObjects = 0

\* an init call of the given function fails in this step
InitFails(fn) ==
    \E c \in DOMAIN inits :
        inits[c].fn = fn /\ inits[c].pc # "rejected" /\ inits'[c].pc = "rejected"

\* the init calls of the other function are as they were
OtherInitsKept(fn) ==
    \A d \in DOMAIN inits : inits[d].fn # fn => inits'[d] = inits[d]

\* C15: a failing init call sets its own engine's status to error and leaves
\* the other engine's status and init calls as they were; with one engine
\* in error and the other ready a run can be started; and a run started with
\* an engine not ready stores that engine's not-loaded message and the other
\* engine's own outcome.
C15_InitFailureIsolated ==
    /\ [][/\ InitFails("initOpenCV") =>
               /\ opencvStatus' = "error"
               /\ faceApiStatus' = faceApiStatus
               /\ OtherInitsKept("initOpenCV")
          /\ InitFails("initFaceApi") =>
               /\ faceApiStatus' = "error"
               /\ opencvStatus' = opencvStatus
               /\ OtherInitsKept("initFaceApi")
          /\ (RunCompletes /\ ~run.opencvReady /\ run.faceApiReady) =>
               /\ opencvError' = "OpenCV not loaded"
               /\ [result |-> faceApiResult', error |-> faceApiError']
                     = OwnOutcome(run.faceApiRes)
          /\ (RunCompletes /\ run.opencvReady /\ ~run.faceApiReady) =>
               /\ faceApiError' = "face-api.js not loaded"
               /\ [result |-> opencvResult', error |-> opencvError']
                     = OwnOutcome(run.opencvRes)]_vars
    /\ []((/\ phase = "mounted"
           /\ imageUrl # Null
           /\ ~isDetecting
           /\ "error" \in {opencvStatus, faceApiStatus}
           /\ "ready" \in {opencvStatus, faceApiStatus})
            => ENABLED RunDetection)

\* the OpenCV script failed to load, face-api became ready, and a run has
\* completed with OpenCV's not-loaded message and face-api's faces
C15_Witness ==
    /\ \E i \in 1..Len(scripts) :
          scripts[i].src = OPENCV_CDN /\ scripts[i].state = "failed"
    /\ opencvStatus = "error"
    /\ faceApiStatus = "ready"
    /\ run.pc = "idle"
    /\ ~isDetecting
    /\ opencvError = "OpenCV not loaded"
    /\ faceApiResult # NullResult
    /\ Len(faceApiResult.faces) > 0

\* how often the adapter function was entered in the run in flight
Starts(r, fn) ==
    IF r.pc = "idle" THEN 0
    ELSE Cardinality({i \in 1..Len(r.log) : r.log[i] = [fn |-> fn, step |-> "startTime"]})

AdapterFns == {"detectWithOpenCV", "detectWithFaceApi"}

\* C16: nothing is retried. Once the mount has been committed no step adds
\* an init call or a script element; an adapter is entered only in the step
\* of a click on the enabled Detect button (the step that sets isDetecting
\* with no run in flight), and at most once per run; the step that
\* completes a run, whatever its outcomes, starts nothing and leaves the
\* button clickable whenever at least one engine is ready.
C16_NoAutomaticRetry ==
    [][/\ phase = "mounted" =>
            /\ Len(inits') = Len(inits)
            /\ Len(scripts') = Len(scripts)
       /\ run' # run =>
            \A fn \in AdapterFns :
                /\ Starts(run', fn) <= 1
                /\ Starts(run', fn) > Starts(run, fn) =>
                      /\ run.pc = "idle"
                      /\ imageUrl # Null
                      /\ ~detectDisabled(isDetecting, opencvStatus, faceApiStatus)
                      /\ isDetecting' = TRUE
       /\ RunCompletes =>
            /\ run' = IdleRun
            /\ nativeObjects' = nativeObjects
            /\ ("ready" \in {opencvStatus', faceApiStatus'}) =>
                  /\ phase' = "mounted"
                  /\ imageUrl' # Null
                  /\ ~detectDisabled(isDetecting', opencvStatus', faceApiStatus')]_vars

\* a further run is in flight after an init call failed and an earlier run's
\* OpenCV call threw (its native objects are still live)
C16_Witness ==
    /\ \E c \in DOMAIN inits : inits[c].pc = "rejected"
    /\ nativeObjects > 0
    /\ run.pc = "awaiting"
    /\ run.opencvRes.status = "fulfilled"

\* the branch settled with a result holding no face
ZeroFaces(res) == res.status = "fulfilled" /\ res.value.faces = <<>>

\* what a panel shows for a detection that found nothing
ShowsNoFaces(result, error) ==
    /\ result # NullResult
    /\ result.faces = <<>>
    /\ result.croppedFaces = <<>>
    /\ error = Null
    /\ "noFaces" \in panel(result, error)
    /\ "error" \notin panel(result, error)

\* C17: when an engine's detection returns zero faces, the completed run
\* leaves that engine with a result whose faces and croppedFaces are empty
\* and with a null error, and its panel shows "No faces detected" and not
\* the error text; this stays so in every state holding such a result.
C17_ZeroFacesIsNotAnError ==
    /\ [][RunCompletes =>
            /\ ZeroFaces(run.opencvRes) => ShowsNoFaces(opencvResult', opencvError')
            /\ ZeroFaces(run.faceApiRes) => ShowsNoFaces(faceApiResult', faceApiError')]_vars
    /\ [](/\ (opencvResult # NullResult /\ opencvResult.faces = <<>>)
               => ShowsNoFaces(opencvResult, opencvError)
          /\ (faceApiResult # NullResult /\ faceApiResult.faces = <<>>)
               => ShowsNoFaces(faceApiResult, faceApiError))

\* a completed run in which OpenCV found no face and face-api found one
C17_Witness ==
    /\ run.pc = "idle"
    /\ ~isDetecting
    /\ opencvResult # NullResult
    /\ opencvResult.faces = <<>>
    /\ faceApiResult # NullResult
    /\ Len(faceApiResult.faces) = 1
    /\ panel(opencvResult, opencvError) = {"stats", "canvas", "noFaces"}

\* the rects of a result are whole, non-negative pixel values
RectsNatural(result) ==
    result # NullResult =>
        \A i \in 1..Len(result.faces) :
            /\ result.faces[i].x \in Nat
            /\ result.faces[i].y \in Nat
            /\ result.faces[i].width \in Nat
            /\ result.faces[i].height \in Nat

\* C18: every FaceRect in a DetectionResult of either adapter has x, y, width
\* and height that are non-negative integers.
C18_RectsNonNegativeIntegers ==
    /\ RectsNatural(opencvResult)
    /\ RectsNatural(faceApiResult)

\* a click starts a run in this step
RunStarts == run.pc = "idle" /\ run'.pc # "idle"

\* a parameter slider is moved in this step
ParamsChange == opencvParams' # opencvParams \/ faceApiParams' # faceApiParams

\* the branch's result holds a face
FoundFace(res) == res.status = "fulfilled" /\ res.value.faces # <<>>

\* C19: a run uses the parameter values of the moment it was triggered: the
\* OpenCV call's result is one the cascade gives with those values, the
\* options handed to face-api hold those values and stay as they are while
\* the run is in flight, and a parameter change alters neither the run in
\* flight nor a stored result; the face-api result the run stores is one
\* the detector gives with the values of the trigger.
C19_ParamsByValue ==
    [][/\ RunStarts =>
            /\ run'.options.inputSize = faceApiParams.inputSize
            /\ run'.options.scoreThreshold = faceApiParams.scoreThreshold
            /\ FoundFace(run'.opencvRes) => opencvParams.scaleFactor <= 110 \/ imageUrl = "blob:a"
       /\ (run.pc # "idle" /\ run'.pc # "idle") =>
            /\ run'.options = run.options
            /\ run'.opencvRes = run.opencvRes
       /\ ParamsChange =>
            /\ run' = run
            /\ opencvResult' = opencvResult
            /\ faceApiResult' = faceApiResult
       /\ RunCompletes =>
            /\ FoundFace(run.faceApiRes) =>
                  /\ NeuralScore(run.img) > run.options.scoreThreshold
                  /\ faceApiResult' = run.faceApiRes.value
            /\ FoundFace(run.opencvRes) => opencvResult' = run.opencvRes.value]_vars

\* a run triggered with threshold 0.3 found the second image's face (score
\* 0.4) although the threshold was moved to 0.5 while it was in flight
C19_Witness ==
    /\ run.pc = "settled"
    /\ run.img = "blob:b"
    /\ run.options.scoreThreshold = 30
    /\ faceApiParams.scoreThreshold = 50
    /\ FoundFace(run.faceApiRes)

\* the adapter's statement is in the log of the run in flight, and where
Has(fn, step) == \E i \in 1..Len(run.log) : run.log[i] = [fn |-> fn, step |-> step]
Pos(fn, step) == CHOOSE i \in 1..Len(run.log) : run.log[i] = [fn |-> fn, step |-> step]

\* the engine's detect call inside the adapter, and the engine's init function
DetectCall(fn) == IF fn = "detectWithOpenCV" THEN "detectMultiScale" ELSE "detectAllFaces"
InitOf(fn) == IF fn = "detectWithOpenCV" THEN "initOpenCV" ELSE "initFaceApi"

\* C20: in both adapters the start time is read only when the engine was
\* ready, so after an init call of the engine has completed, and before the
\* engine's detect call; the end time is read right after the detect call
\* has returned and before cropFaces runs.
C20_IntervalIsTheDetectCall ==
    run.pc # "idle" =>
        \A fn \in AdapterFns :
            /\ Has(fn, "startTime") =>
                  /\ IF fn = "detectWithOpenCV" THEN run.opencvReady ELSE run.faceApiReady
                  /\ \E c \in DOMAIN inits :
                        inits[c].fn = InitOf(fn) /\ inits[c].pc = "fulfilled"
            /\ Has(fn, DetectCall(fn)) => Pos(fn, "startTime") < Pos(fn, DetectCall(fn))
            /\ Has(fn, "endTime") => Pos(fn, "endTime") = Pos(fn, DetectCall(fn)) + 1
            /\ Has(fn, "cropFaces") =>
                  /\ Has(fn, "endTime")
                  /\ Pos(fn, "endTime") < Pos(fn, "cropFaces")

\* both adapters have read their end time and cropped in the run in flight
C20_Witness ==
    /\ run.pc = "settled"
    /\ Has("detectWithOpenCV", "endTime")
    /\ Has("detectWithOpenCV", "cropFaces")
    /\ Has("detectWithFaceApi", "endTime")
    /\ Has("detectWithFaceApi", "cropFaces")

\* script elements of url whose load has completed
LoadedScripts(url) ==
    {i \in 1..Len(scripts) : scripts[i].src = url /\ scripts[i].state = "loaded"}

\* C21: a loadScript call made after a load of its URL has completed creates
\* no script element and returns that load's resolved promise, so a URL has
\* at most one completed load; a call is answered from its own URL's loads
\* only, and the settling of one URL's load changes no promise of the other.
C21_LoadedOnceAndIndependent ==
    /\ [](/\ \A k \in 1..Len(calls) :
               /\ calls[k].loadedBefore # {} =>
                     /\ ~calls[k].created
                     /\ calls[k].promise.id \in calls[k].loadedBefore
                     /\ promises[calls[k].promise.id] = "resolved"
               /\ scripts[calls[k].promise.id].src = calls[k].src
               /\ calls[k].created <=>
                     (calls[k].overlap = {} /\ calls[k].loadedBefore = {})
          /\ \A u \in ScriptUrls : Cardinality(LoadedScripts(u)) <= 1)
    /\ [][\A i, j \in 1..Len(scripts) :
            (scripts[i].src # scripts[j].src /\ promises'[i] # promises[i])
                => /\ promises'[j] = promises[j]
                   /\ scriptLoadPromises'[scripts[j].src]
                         = scriptLoadPromises[scripts[j].src]]_vars

\* a call answered from a completed load of its URL, made after the other
\* URL's load had failed
C21_Witness ==
    \E k \in 1..Len(calls) :
        /\ calls[k].loadedBefore # {}
        /\ ~calls[k].created
        /\ \E i \in 1..Len(scripts) :
              /\ scripts[i].src # calls[k].src
              /\ scripts[i].state = "failed"

\* C22: handleFile with a file that is no image changes nothing; with an
\* image file it sets imageUrl, nulls both results and both errors, and
\* leaves the engine statuses, the parameters and isDetecting as they were.
C22_HandleFileFrame ==
    [][\A file \in Files :
        HandleFile(file) =>
            IF file.type \in {"image/png", "image/jpeg"}
            THEN /\ imageUrl' = file.url
                 /\ opencvResult' = NullResult
                 /\ faceApiResult' = NullResult
                 /\ opencvError' = Null
                 /\ faceApiError' = Null
                 /\ UNCHANGED <<opencvStatus, faceApiStatus, opencvParams,
                                faceApiParams, isDetecting>>
            ELSE UNCHANGED vars]_vars

\* the second image was selected while a run on the first was in flight and
\* after a parameter was moved: isDetecting is still set, results are null
C22_Witness ==
    /\ imageUrl = "blob:b"
    /\ isDetecting
    /\ run.pc = "awaiting"
    /\ run.img = "blob:a"
    /\ opencvParams # DefaultOpenCVParams
    /\ opencvResult = NullResult
    /\ opencvStatus = "ready"

\* nothing of a run is shown: both results and both errors are null
NothingShown ==
    /\ opencvResult = NullResult
    /\ faceApiResult = NullResult
    /\ opencvError = Null
    /\ faceApiError = Null

\* a result or an error is set in this step
Publishes ==
    \/ opencvResult' # NullResult /\ opencvResult' # opencvResult
    \/ faceApiResult' # NullResult /\ faceApiResult' # faceApiResult
    \/ opencvError' # Null /\ opencvError' # opencvError
    \/ faceApiError' # Null /\ faceApiError' # faceApiError

\* C23: while a run is in flight nothing of it is shown and isDetecting is
\* set, also when one branch has already settled; a result or error is set,
\* and isDetecting is reset, only in a step taken when both branches have
\* settled, so a branch that never settles leaves isDetecting set and
\* nothing shown.
C23_NothingBeforeBothSettle ==
    /\ [](run.pc # "idle" => (isDetecting /\ NothingShown))
    /\ [][(Publishes \/ (isDetecting /\ ~isDetecting')) =>
            /\ run.pc = "settled"
            /\ run.opencvRes.status \in {"fulfilled", "rejected"}
            /\ run.faceApiRes.status \in {"fulfilled", "rejected"}]_vars

\* the OpenCV call has returned a face and the face-api call is pending:
\* nothing is shown
C23_Witness ==
    /\ run.pc = "awaiting"
    /\ run.faceApiRes = Pending
    /\ FoundFace(run.opencvRes)
    /\ isDetecting
    /\ NothingShown

\* C24: a result or error that becomes visible was produced by a run started
\* on the image that is selected now: no run started on a previous image
\* publishes anything.
C24_ShownResultIsOfCurrentImage ==
    [][Publishes => run.img = imageUrl']_vars

\* a run's record is set up in this step: from idle, or in place of a run
\* that was in flight
RunRecordSetUp ==
    /\ run'.pc # "idle"
    /\ \/ run.pc = "idle"
       \/ run.pc # "idle" /\ run'.img # run.img
       \/ run.pc # "idle" /\ run'.options # run.options
       \/ run.pc # "idle" /\ run'.opencvRes # run.opencvRes

\* C25: at most one run is in flight: a run is started only with no run in
\* flight, an image selected, isDetecting false and an engine ready, and
\* isDetecting is set exactly while the run is in flight, from its start
\* until the step taken after both branches have settled.
C25_OneRunInFlight ==
    /\ [](isDetecting <=> run.pc \in {"awaiting", "settled"})
    /\ [][RunRecordSetUp =>
            /\ run.pc = "idle"
            /\ imageUrl # Null
            /\ ~isDetecting
            /\ "ready" \in {opencvStatus, faceApiStatus}
            /\ isDetecting']_vars

\* a run is in flight on the first image, the user has selected the second
\* one, both engines are ready, and the Detect button cannot be clicked
C25_Witness ==
    /\ run.pc = "awaiting"
    /\ run.img = "blob:a"
    /\ imageUrl = "blob:b"
    /\ isDetecting
    /\ opencvStatus = "ready"
    /\ faceApiStatus = "ready"
    /\ ~ENABLED RunDetection


\* ------------------------------------------------------------------------
\* C26: every started detection run whose two engine calls return or throw
\* completes with isDetecting reset to false, whichever way each branch
\* settled (fulfilled/fulfilled, fulfilled/rejected, rejected/fulfilled,
\* rejected/rejected)
\* ------------------------------------------------------------------------

SettleStatuses == {"fulfilled", "rejected"}

C26_StartedRunCompletes ==
    /\ (run.pc # "idle") ~> (run.pc = "idle" /\ ~isDetecting)
    /\ \A o \in SettleStatuses : \A f \in SettleStatuses :
         (run.pc = "settled" /\ run.opencvRes.status = o /\ run.faceApiRes.status = f)
             ~> ~isDetecting

\* a run in which both engine calls threw has completed
C26_Witness ==
    /\ run = IdleRun
    /\ ~isDetecting
    /\ opencvStatus = "ready" /\ faceApiStatus = "ready"
    /\ opencvError # Null /\ faceApiError # Null

\* ------------------------------------------------------------------------
\* C27: whenever the classical engine's status is ready, the classifier
\* definition file is present in the file namespace of the engine that
\* detection uses (the module window.cv refers to)
\* ------------------------------------------------------------------------

C27_ReadyHasCascade == opencvStatus = "ready" => CascadeLoadable

\* ------------------------------------------------------------------------
\* C28: in every DetectionResult an adapter produces (2D context available)
\* croppedFaces has as many entries as faces, and the crop at index i is the
\* crop region of the face rect at index i
\* ------------------------------------------------------------------------

CropsFollowFaces(result, size) ==
    result # NullResult =>
        /\ Len(result.croppedFaces) = Len(result.faces)
        /\ \A i \in 1..Len(result.faces) :
             result.croppedFaces[i] = cropRegion(result.faces[i], size.w, size.h)

C28_OneCropPerFaceInOrder ==
    /\ CropsFollowFaces(opencvResult, cropImg)
    /\ CropsFollowFaces(faceApiResult, cropImg)

\* both adapters returned two different faces, whose crops differ
TwoDistinct(result) ==
    /\ result # NullResult
    /\ Len(result.faces) = 2
    /\ result.faces[1] # result.faces[2]
    /\ result.croppedFaces[1] # result.croppedFaces[2]

C28_Witness == TwoDistinct(opencvResult) /\ TwoDistinct(faceApiResult)

\* ------------------------------------------------------------------------
\* C29: for a face rect with integer fields and positive width and height
\* that lies entirely inside the image, the crop region has positive width
\* and height and contains the whole rect
\* ------------------------------------------------------------------------

C29_CropContainsFace ==
    (Cropped /\ FaceInsideImage) =>
        LET crop == cropOut[1]
        IN  /\ crop.w > 0 /\ crop.h > 0
            /\ crop.x <= cropFace.x /\ crop.y <= cropFace.y
            /\ crop.x + crop.w >= cropFace.x + cropFace.width
            /\ crop.y + crop.h >= cropFace.y + cropFace.height

\* a rect inside the image whose padded region is cut on the left by the
\* origin clamp and on the right by the image's width
C29_Witness ==
    /\ Cropped /\ FaceInsideImage
    /\ RoundQuarters(4 * cropFace.x - paddingQuarters(cropFace)) < 0
    /\ cropOut[1].x = 0
    /\ cropOut[1].w = cropImg.w
    /\ cropOut[1].w < RoundQuarters(4 * cropFace.width + 2 * paddingQuarters(cropFace))

\* ------------------------------------------------------------------------
\* C30: within detectWithOpenCV no engine-native object is used after its
\* release and none is released twice; the reads of the detection vector
\* and the cropping step come before every delete call; on the normal
\* return path each of the four objects is deleted exactly once
\* ------------------------------------------------------------------------

\* the statements the run's detectWithOpenCV call has executed, in order
OpenCVLog ==
    LET entries == SelectSeq(run.log, LAMBDA e : e.fn = "detectWithOpenCV")
    IN  [i \in 1..Len(entries) |-> entries[i].step]

C30_NoUseAfterRelease ==
    run.pc # "idle" =>
        LET log == OpenCVLog
        IN  /\ \A i \in 1..Len(log) : \A j \in 1..Len(log) :
                 i < j => NativeReleased(log[i]) \cap NativeUsed(log[j]) = {}
            /\ \A i \in 1..Len(log) : \A j \in 1..Len(log) :
                 (log[i] \in DeleteSteps /\ log[j] \in {"faceRects", "cropFaces"})
                     => j < i
            /\ run.opencvRes.status = "fulfilled" =>
                 \A d \in DeleteSteps : CountIn(log, {d}) = 1

\* a call that found a face has returned normally
C30_Witness ==
    /\ run.pc # "idle"
    /\ run.opencvRes.status = "fulfilled"
    /\ Len(run.opencvRes.value.faces) >= 1
    /\ Len(OpenCVLog) = Len(OpenCVProgram)
====
